---- MODULE Spec2Model ----
(***************************************************************************)
(* ESTOQUE-MASTER: the inventory ledger engine of the React application.   *)
(*                                                                         *)
(* The repository holds several revisions of the App component.  Three of  *)
(* them are modelled, selected by the variable rev, which is fixed for a   *)
(* whole behaviour:                                                        *)
(*   "App" : src/App.tsx                                                   *)
(*   "P1"  : src/unnamed/part_001, second component (lines 1006-1850)      *)
(*   "P2"  : src/unnamed/part_002                                          *)
(* The state is the React state of the component: products, transactions,  *)
(* the modal/form state, and the clock and id generator the handlers read. *)
(* Every event handler is one action; React re-renders between events, so  *)
(* a handler's closure holds the current state, except for the FileReader  *)
(* callback of P1's import, which keeps the products it captured.          *)
(*                                                                         *)
(* Numbers are small integers.  Descriptive fields that no handler reads   *)
(* (type, ean, dun, image) are left out of the product record.  The free   *)
(* text the user can type into the notes box is kept empty.                *)
(***************************************************************************)
EXTENDS Integers, Sequences, FiniteSets, TLC

\* ------------------------------------------------------------------ bounds
\* the clock stops at MaxTime: every committed mutation takes one tick
MaxTime == 2
\* the positive quantity typed into a quantity input
MaxQty == 2
\* the catalog holds at most MaxProducts products
MaxProducts == 3

\* --------------------------------------------------------------- constants
\* [..].slice(0, 5): the retention window of costHistory
HistoryLimit == 5

\* TRANSACTION_TYPES (types.ts:42-46); the labels are written without accents
ENTRY == "ENTRADA"
EXIT == "SAIDA"
ADJUSTMENT == "AJUSTE"
TransactionType == {ENTRY, EXIT, ADJUSTMENT}

\* JavaScript undefined / null for a number, a costHistory and a product
Undef == -1
NoHist == <<[price |-> Undef, date |-> Undef]>>
NoProduct == [id |-> 0]

Revisions == {"App", "P1", "P2"}
\* what parseFloat(e.target.value) || 0 can give: a negative number, 0 (also
\* for an empty input) or a positive number
Qty == {-1, 0, MaxQty}
Cost == {1, 2}
\* what the user types into the name and cost inputs of the product form
FormNames == {"B"}
FormCosts == {2}
\* what the user types into the code input of the product form: the code
\* of the first stored product
FormCodes == {"c1"}

\* AuthScreen (App.tsx:155-233): the number of failed logins that locks the
\* screen, and the limits on registered administrators and viewers
MaxAttempts == 5
MaxAdmins == 3
MaxViewers == 5
\* the number of stored users up to which registrations are followed
MaxUsers == 3

\* ----------------------------------------------------------------- helpers
Max(a, b) == IF a >= b THEN a ELSE b
Min(a, b) == IF a <= b THEN a ELSE b

\* Array.prototype.slice(0, n)
Slice(s, n) == SubSeq(s, 1, Min(n, Len(s)))

\* (p.costHistory || [])
HistOrEmpty(h) == IF h = NoHist THEN <<>> ELSE h

\* p.costHistory?.length, with undefined counted as 0 (falsy)
HistLength(h) == Len(HistOrEmpty(h))

\* products.map(f)
MapSeq(s, F(_)) == [i \in 1..Len(s) |-> F(s[i])]

Ids(s) == {s[i].id : i \in 1..Len(s)}

\* the product of the catalog with this id (ids are unique in a catalog)
ById(s, id) == s[CHOOSE i \in 1..Len(s) : s[i].id = id]

VARIABLES
  rev,              \* which revision of the component runs
  products,         \* useState<Product[]>
  transactions,     \* useState<Transaction[]>, newest first
  now,              \* the clock read by new Date().toISOString()
  nextId,           \* the next value of crypto.randomUUID()
  selectedProduct,  \* useState<Product | null>: snapshot taken when a modal opens
  modalType,        \* useState<... | null>
  quantity,         \* useState<number>
  transactionCost,  \* useState<number> (transCost in App.tsx)
  showConfirmStep,  \* useState<boolean> (P2 only)
  selectedIds,      \* useState<Set<string>>
  productForm,      \* useState<Partial<Product>> (form in App.tsx)
  currentUser,      \* useState<User | null> (App.tsx only)
  pendingImport,    \* P1: the FileReader whose onload has not run yet
  storage,          \* localStorage: the saved catalog and ledger
  users,            \* App.tsx: AuthScreen's useState<User[]>, equal to the stored users
  failedAttempts,   \* App.tsx: the stored counter of failed logins
  isLocked,         \* App.tsx: AuthScreen's useState<boolean>
  authMode,         \* App.tsx: AuthScreen's useState<AuthMode>
  lastOp            \* observation: the handler that ran last and its outcome

vars == <<rev, products, transactions, now, nextId, selectedProduct, modalType,
          quantity, transactionCost, showConfirmStep, selectedIds, productForm,
          currentUser, pendingImport, storage, users, failedAttempts,
          isLocked, authMode, lastOp>>

authVars == <<users, failedAttempts, isLocked, authMode>>

modalVars == <<selectedProduct, modalType, quantity, transactionCost,
               showConfirmStep, productForm>>

Op(name, result) == [op |-> name, result |-> result]

\* a handler that only changes modal, form or selection state
UiOp == Op("ui", "ok")

\* ------------------------------------------------------------ data model
\* interface Product (types.ts)
Product(id, code, name, stock, cost, prevCost, hist) ==
  [id |-> id, code |-> code, name |-> name, category |-> "Geral", unit |-> "KG",
   safetyStock |-> 2, minStock |-> 1, monthlyConsumption |-> 20,
   currentStock |-> stock, previousStock |-> stock,
   costPrice |-> cost, salePrice |-> 3,
   previousCostPrice |-> prevCost, costHistory |-> hist]

\* a stored history of n entries, newest first, written before this session
OldHist(n) == [i \in 1..n |-> [price |-> IF i % 2 = 1 THEN 1 ELSE 2, date |-> 1 - i]]

\* the second product of a stored catalog: untouched, or after an EXIT of
\* 2 units that emptied it in an earlier session
StoredSecond(exited) ==
  [Product(2, "c2", "B", IF exited THEN 0 ELSE 1, 1, 1, OldHist(1))
     EXCEPT !.previousStock = 1]

\* the ledger record of that earlier EXIT, as the revision wrote it
StoredExit(r) ==
  LET t == [id |-> 3, productId |-> 2, productName |-> "B", type |-> EXIT,
            quantity |-> 2, unitCost |-> 1, date |-> 0, notes |-> ""]
  IN IF r = "App" THEN t @@ [userName |-> "ADMIN"] ELSE t

\* what storageService.getProducts() / getTransactions() return on mount
\* (storageService.ts:11-27).  The first product is a legacy record without
\* cost fields, a record created by App.tsx (empty history), one created by
\* handleSaveProduct (seeded history) or one whose history is full.
StoredStates(r) ==
  { [products |-> <<p1, StoredSecond(exited)>>,
     transactions |-> IF exited THEN <<StoredExit(r)>> ELSE <<>>] :
      p1 \in { Product(1, "c1", "A", 3, 1, Undef, NoHist),
               Product(1, "c1", "A", 3, 1, Undef, <<>>),
               Product(1, "c1", "A", 3, 1, 1, OldHist(1)),
               Product(1, "c1", "A", 3, 1, 2, OldHist(HistoryLimit)) },
      exited \in BOOLEAN }

\* the initial value of productForm, also set by closeModal (part_002:76-79)
EmptyForm ==
  [name |-> "", code |-> "", category |-> "", unit |-> "KG", safetyStock |-> 0,
   minStock |-> 0, monthlyConsumption |-> 0, currentStock |-> 0,
   costPrice |-> 0, salePrice |-> 0]

\* interface User (types.ts), reduced to what a login compares (username and
\* password, here one credential) and the role
User(cred, role) == [cred |-> cred, role |-> role]

\* storageService.getUsers() on mount: the users registered earlier
StoredUsers == <<User("admin", "ADMIN"), User("viewer", "VIEWER")>>

\* what is typed into the username and password inputs of AuthScreen
Credentials == {"admin", "viewer", "wrong"}

\* a mount effect that does not read the stored counter
AuthScreen_MountLocked_Never(attempts) == FALSE

\* the mount effect of AuthScreen (App.tsx:161-164):
\* isLocked after if (getFailedAttempts() >= 5) setIsLocked(true)
AuthScreen_MountLocked(attempts) == attempts >= MaxAttempts

\* the effect on [products] (App.tsx:292; part_001:1041-1043; part_002:87-89):
\* what localStorage holds for the catalog after a render with the catalog ps.
\* JSON.stringify / JSON.parse give back the values of the model as they are:
\* numbers are finite, dates are strings, a key whose value is undefined is
\* dropped and reads as undefined again.
SaveProductsEffect(r, ps, stored) ==
  IF r = "App" \/ Len(ps) > 0 THEN ps ELSE stored

\* the effects of one mount (App.tsx:286-293; part_002:82-93): the load effect
\* reads localStorage, the save effects of the same flush run with the empty
\* state of the first render, and the render of the loaded state saves again
Mount(r, stored) ==
  LET loaded == [products |-> stored.products, transactions |-> stored.transactions]
      first == [products |-> SaveProductsEffect(r, <<>>, stored.products),
                transactions |-> <<>>]
      second == [products |-> SaveProductsEffect(r, loaded.products, first.products),
                 transactions |-> loaded.transactions]
  IN [memory |-> loaded, storage |-> second]

\* the save effects after a handler's render: an effect runs when the state
\* it depends on was set
RunSaveEffects ==
  storage' = [products |-> IF products' /= products
                           THEN SaveProductsEffect(rev, products', storage.products)
                           ELSE storage.products,
              transactions |-> IF transactions' /= transactions
                               THEN transactions'
                               ELSE storage.transactions]

Init ==
  /\ rev \in Revisions
  /\ \E st \in StoredStates(rev) :
       /\ products = Mount(rev, st).memory.products
       /\ transactions = Mount(rev, st).memory.transactions
       /\ storage = Mount(rev, st).storage
  /\ now = 1
  /\ nextId = 4
  /\ selectedProduct = NoProduct
  /\ modalType = "null"
  /\ quantity = 0
  /\ transactionCost = 0
  /\ showConfirmStep = FALSE
  /\ selectedIds = {}
  /\ productForm = IF rev = "App" THEN <<>> ELSE EmptyForm
  /\ currentUser = "null"
  /\ pendingImport = <<>>
  /\ users = StoredUsers
  /\ failedAttempts = 0
  /\ isLocked = AuthScreen_MountLocked(0)
  /\ authMode = "login"
  /\ lastOp = Op("mount", "ok")

\* ===================================================== part_002 (rev "P2")

\* P2_NewTransaction with the bug of recording the realised stock delta
\* instead of the requested quantity
P2_NewTransaction_Clamped(sel, type, q, cost, ts, id) ==
  [id |-> id, productId |-> sel.id, productName |-> sel.name, type |-> type,
   quantity |-> IF type = EXIT THEN Min(q, sel.currentStock) ELSE q,
   unitCost |-> cost, date |-> ts,
   notes |-> IF type /= EXIT /\ cost /= sel.costPrice
             THEN "Preco atualizado" ELSE ""]

\* the ledger record built by handleTransaction (part_002:178-193)
P2_NewTransaction(sel, type, q, cost, ts, id) ==
  [id |-> id, productId |-> sel.id, productName |-> sel.name, type |-> type,
   quantity |-> q, unitCost |-> cost, date |-> ts,
   notes |-> IF type /= EXIT /\ cost /= sel.costPrice
             THEN "Preco atualizado" ELSE ""]

\* the history kept for the product (part_002:210-214)
P2_UpdatedHistory(p, newCostPrice, costChanged, ts) ==
  LET updatedHistory == HistOrEmpty(p.costHistory) IN
  IF costChanged \/ Len(updatedHistory) = 0
  THEN Slice(<<[price |-> newCostPrice, date |-> ts]>> \o updatedHistory, HistoryLimit)
  ELSE updatedHistory

\* the stock before the Math.max(0, _) clamp (part_002:197-200)
P2_NewStock(p, type, q) ==
  IF type = ENTRY THEN p.currentStock + q
  ELSE IF type = EXIT THEN p.currentStock - q
  ELSE IF type = ADJUSTMENT THEN q
  ELSE p.currentStock

\* P2_UpdateProduct with the bug of leaving out Math.max(0, newStock)
P2_UpdateProduct_NoClamp(p, type, q, cost, ts) ==
  LET newStock == P2_NewStock(p, type, q)
      newCostPrice == IF type = ENTRY \/ type = ADJUSTMENT THEN cost ELSE p.costPrice
      costChanged == newCostPrice /= p.costPrice
      previousCostPrice == IF costChanged THEN p.costPrice ELSE p.previousCostPrice
  IN [p EXCEPT !.previousStock = p.currentStock,
               !.currentStock = newStock,
               !.costPrice = newCostPrice,
               !.previousCostPrice = previousCostPrice,
               !.costHistory = P2_UpdatedHistory(p, newCostPrice, costChanged, ts)]

\* the body of products.map for the selected product (part_002:196-224)
P2_UpdateProduct(p, type, q, cost, ts) ==
  LET newStock == P2_NewStock(p, type, q)
      newCostPrice == IF type = ENTRY \/ type = ADJUSTMENT THEN cost ELSE p.costPrice
      costChanged == newCostPrice /= p.costPrice
      previousCostPrice == IF costChanged THEN p.costPrice ELSE p.previousCostPrice
  IN [p EXCEPT !.previousStock = p.currentStock,
               !.currentStock = Max(0, newStock),
               !.costPrice = newCostPrice,
               !.previousCostPrice = previousCostPrice,
               !.costHistory = P2_UpdatedHistory(p, newCostPrice, costChanged, ts)]

\* closeModal (part_002:351-364)
P2_closeModalEffect ==
  /\ selectedProduct' = NoProduct
  /\ modalType' = "null"
  /\ quantity' = 0
  /\ transactionCost' = 0
  /\ showConfirmStep' = FALSE
  /\ productForm' = EmptyForm

P2_closeModal ==
  /\ rev = "P2"
  /\ now < MaxTime
  /\ modalType /= "null"
  /\ P2_closeModalEffect
  /\ lastOp' = UiOp
  /\ UNCHANGED <<rev, products, transactions, now, nextId, selectedIds,
                 currentUser, pendingImport>>
  /\ UNCHANGED authVars
  /\ RunSaveEffects

\* openTransactionModal (part_002:366-370).  The cards call it with ENTRY and
\* EXIT (part_002:573, 576); the modal and handleTransaction also serve
\* ADJUSTMENT (part_002:200, 809), so the type ranges over TransactionType.
\* The handler tests nothing and the cards' buttons (part_002:568-580) are
\* rendered whatever dialog is open: the dialog's overlay (part_002:785) keeps
\* the pointer off them, while they stay in the tab order, so the action
\* carries no guard on modalType.
P2_openTransactionModal ==
  /\ rev = "P2"
  /\ now < MaxTime
  /\ \E i \in 1..Len(products), type \in TransactionType :
       /\ selectedProduct' = products[i]
       /\ modalType' = type
       /\ transactionCost' = products[i].costPrice
  /\ lastOp' = UiOp
  /\ UNCHANGED <<rev, products, transactions, now, nextId, quantity,
                 showConfirmStep, selectedIds, productForm, currentUser,
                 pendingImport>>
  /\ UNCHANGED authVars
  /\ RunSaveEffects

\* the quantity input of the transaction modal (part_002:803)
P2_setQuantity ==
  /\ rev = "P2"
  /\ now < MaxTime
  /\ modalType \in TransactionType
  /\ \E q \in Qty : quantity' = q
  /\ lastOp' = UiOp
  /\ UNCHANGED <<rev, products, transactions, now, nextId, selectedProduct,
                 modalType, transactionCost, showConfirmStep, selectedIds,
                 productForm, currentUser, pendingImport>>
  /\ UNCHANGED authVars
  /\ RunSaveEffects

\* the unit cost input, shown for ENTRY and ADJUSTMENT (part_002:809-817)
P2_setTransactionCost ==
  /\ rev = "P2"
  /\ now < MaxTime
  /\ modalType \in {ENTRY, ADJUSTMENT}
  /\ \E c \in Cost : transactionCost' = c
  /\ lastOp' = UiOp
  /\ UNCHANGED <<rev, products, transactions, now, nextId, selectedProduct,
                 modalType, quantity, showConfirmStep, selectedIds,
                 productForm, currentUser, pendingImport>>
  /\ UNCHANGED authVars
  /\ RunSaveEffects

\* handleTransaction (part_002:171-231)
P2_handleTransaction ==
  /\ rev = "P2"
  /\ now < MaxTime
  /\ modalType \in TransactionType
  /\ IF selectedProduct = NoProduct \/ quantity <= 0
     THEN /\ lastOp' = Op("handleTransaction", "rejected")
          /\ UNCHANGED <<products, transactions, now, nextId, modalVars>>
     ELSE IF modalType = EXIT /\ ~showConfirmStep
     THEN /\ showConfirmStep' = TRUE
          /\ lastOp' = Op("handleTransaction", "confirm")
          /\ UNCHANGED <<products, transactions, now, nextId, selectedProduct,
                         modalType, quantity, transactionCost, productForm>>
     ELSE /\ transactions' =
               <<P2_NewTransaction(selectedProduct, modalType, quantity,
                                   transactionCost, now, nextId)>> \o transactions
          /\ products' =
               [i \in 1..Len(products) |->
                  IF products[i].id = selectedProduct.id
                  THEN P2_UpdateProduct(products[i], modalType, quantity,
                                        transactionCost, now)
                  ELSE products[i]]
          /\ now' = now + 1
          /\ nextId' = nextId + 1
          /\ P2_closeModalEffect
          /\ lastOp' = Op("handleTransaction", "committed")
  /\ UNCHANGED <<rev, selectedIds, currentUser, pendingImport>>
  /\ UNCHANGED authVars
  /\ RunSaveEffects

\* toggleSelection (part_002:157-162), a card's checkbox
P2_toggleSelection ==
  /\ rev = "P2"
  /\ now < MaxTime
  /\ modalType = "null"
  /\ \E i \in 1..Len(products) :
       selectedIds' = IF products[i].id \in selectedIds
                      THEN selectedIds \ {products[i].id}
                      ELSE selectedIds \cup {products[i].id}
  /\ lastOp' = UiOp
  /\ UNCHANGED <<rev, products, transactions, now, nextId, modalVars,
                 currentUser, pendingImport>>
  /\ UNCHANGED authVars
  /\ RunSaveEffects

\* newTransactions of handleBulkZeroStock, in catalog order (part_002:238-256)
RECURSIVE P2_ZeroStockTransactions(_, _, _, _)
P2_ZeroStockTransactions(ps, sel, ts, id) ==
  IF ps = <<>> THEN <<>>
  ELSE LET p == Head(ps) IN
       IF p.id \in sel /\ p.currentStock > 0
       THEN <<[id |-> id, productId |-> p.id, productName |-> p.name,
               type |-> ADJUSTMENT, quantity |-> 0, unitCost |-> p.costPrice,
               date |-> ts, notes |-> "Ajuste em massa: Zerar estoque"]>>
            \o P2_ZeroStockTransactions(Tail(ps), sel, ts, id + 1)
       ELSE P2_ZeroStockTransactions(Tail(ps), sel, ts, id)

\* the product returned by the map of handleBulkZeroStock (part_002:240-256)
P2_ZeroStockProduct(p, sel) ==
  IF p.id \in sel
  THEN [p EXCEPT !.previousStock = p.currentStock, !.currentStock = 0]
  ELSE p

\* handleBulkZeroStock (part_002:233-263)
P2_handleBulkZeroStock ==
  /\ rev = "P2"
  /\ now < MaxTime
  /\ modalType = "null"
  /\ \E confirmed \in BOOLEAN :
       IF selectedIds = {} \/ ~confirmed
       THEN /\ lastOp' = Op("handleBulkZeroStock", "rejected")
            /\ UNCHANGED <<products, transactions, now, nextId, selectedIds>>
       ELSE LET newTransactions ==
                  P2_ZeroStockTransactions(products, selectedIds, now, nextId)
            IN /\ transactions' = newTransactions \o transactions
               /\ products' = [i \in 1..Len(products) |->
                                 P2_ZeroStockProduct(products[i], selectedIds)]
               /\ selectedIds' = {}
               /\ now' = now + 1
               /\ nextId' = nextId + Len(newTransactions)
               /\ lastOp' = Op("handleBulkZeroStock", "committed")
  /\ UNCHANGED <<rev, modalVars, currentUser, pendingImport>>
  /\ UNCHANGED authVars
  /\ RunSaveEffects

\* handleBulkAddStock (part_002:265-270)
P2_handleBulkAddStock ==
  /\ rev = "P2"
  /\ now < MaxTime
  /\ modalType = "null"
  /\ IF selectedIds = {}
     THEN /\ lastOp' = Op("handleBulkAddStock", "rejected")
          /\ UNCHANGED <<modalType, quantity>>
     ELSE /\ modalType' = "bulkAdd"
          /\ quantity' = 0
          /\ lastOp' = UiOp
  /\ UNCHANGED <<rev, products, transactions, now, nextId, selectedProduct,
                 transactionCost, showConfirmStep, selectedIds, productForm,
                 currentUser, pendingImport>>
  /\ UNCHANGED authVars
  /\ RunSaveEffects

\* the quantity input of the bulk modal (part_002:711)
P2_setBulkQuantity ==
  /\ rev = "P2"
  /\ now < MaxTime
  /\ modalType = "bulkAdd"
  /\ \E q \in Qty : quantity' = Max(0, q)
  /\ lastOp' = UiOp
  /\ UNCHANGED <<rev, products, transactions, now, nextId, selectedProduct,
                 modalType, transactionCost, showConfirmStep, selectedIds,
                 productForm, currentUser, pendingImport>>
  /\ UNCHANGED authVars
  /\ RunSaveEffects

\* newTransactions of confirmBulkAdd, in catalog order (part_002:277-288)
RECURSIVE P2_BulkAddTransactions(_, _, _, _, _)
P2_BulkAddTransactions(ps, sel, q, ts, id) ==
  IF ps = <<>> THEN <<>>
  ELSE LET p == Head(ps) IN
       IF p.id \in sel
       THEN <<[id |-> id, productId |-> p.id, productName |-> p.name,
               type |-> ENTRY, quantity |-> q, unitCost |-> p.costPrice,
               date |-> ts, notes |-> "Entrada em massa"]>>
            \o P2_BulkAddTransactions(Tail(ps), sel, q, ts, id + 1)
       ELSE P2_BulkAddTransactions(Tail(ps), sel, q, ts, id)

\* confirmBulkAdd without the selectedIds.has(p.id) test: every product of
\* the catalog receives the quantity
P2_BulkAddProduct_All(p, sel, q) ==
  [p EXCEPT !.previousStock = p.currentStock,
            !.currentStock = p.currentStock + q]

\* the product returned by the map of confirmBulkAdd (part_002:276-292)
P2_BulkAddProduct(p, sel, q) ==
  IF p.id \in sel
  THEN [p EXCEPT !.previousStock = p.currentStock,
                 !.currentStock = p.currentStock + q]
  ELSE p

\* confirmBulkAdd (part_002:272-298)
P2_confirmBulkAdd ==
  /\ rev = "P2"
  /\ now < MaxTime
  /\ modalType = "bulkAdd"
  /\ IF quantity <= 0
     THEN /\ lastOp' = Op("confirmBulkAdd", "rejected")
          /\ UNCHANGED <<products, transactions, now, nextId, selectedIds,
                         modalVars>>
     ELSE LET newTransactions ==
                P2_BulkAddTransactions(products, selectedIds, quantity, now, nextId)
          IN /\ transactions' = newTransactions \o transactions
             /\ products' = [i \in 1..Len(products) |->
                               P2_BulkAddProduct(products[i], selectedIds, quantity)]
             /\ selectedIds' = {}
             /\ now' = now + 1
             /\ nextId' = nextId + Len(newTransactions)
             /\ P2_closeModalEffect
             /\ lastOp' = Op("confirmBulkAdd", "committed")
  /\ UNCHANGED <<rev, currentUser, pendingImport>>
  /\ UNCHANGED authVars
  /\ RunSaveEffects

\* handleBulkDelete (part_002:300-307)
P2_handleBulkDelete ==
  /\ rev = "P2"
  /\ now < MaxTime
  /\ modalType = "null"
  /\ \E confirmed \in BOOLEAN :
       IF selectedIds = {} \/ ~confirmed
       THEN /\ lastOp' = Op("handleBulkDelete", "rejected")
            /\ UNCHANGED <<products, selectedIds, now>>
       ELSE /\ products' = SelectSeq(products, LAMBDA p : p.id \notin selectedIds)
            /\ selectedIds' = {}
            /\ now' = now + 1
            /\ lastOp' = Op("handleBulkDelete", "committed")
  /\ UNCHANGED <<rev, transactions, nextId, modalVars, currentUser,
                 pendingImport>>
  /\ UNCHANGED authVars
  /\ RunSaveEffects

\* openEditModal (part_002:372-376)
P2_openEditModal ==
  /\ rev = "P2"
  /\ now < MaxTime
  /\ modalType = "null"
  /\ \E i \in 1..Len(products) :
       /\ selectedProduct' = products[i]
       /\ productForm' = products[i]
  /\ modalType' = "edit"
  /\ lastOp' = UiOp
  /\ UNCHANGED <<rev, products, transactions, now, nextId, quantity,
                 transactionCost, showConfirmStep, selectedIds, currentUser,
                 pendingImport>>
  /\ UNCHANGED authVars
  /\ RunSaveEffects

\* the "Novo Material" button: setModalType('add') (part_002:427)
P2_openAddModal ==
  /\ rev = "P2"
  /\ now < MaxTime
  /\ modalType = "null"
  /\ modalType' = "add"
  /\ lastOp' = UiOp
  /\ UNCHANGED <<rev, products, transactions, now, nextId, selectedProduct,
                 quantity, transactionCost, showConfirmStep, selectedIds,
                 productForm, currentUser, pendingImport>>
  /\ UNCHANGED authVars
  /\ RunSaveEffects

\* the inputs of the add/edit form (part_002:735-774): name, category, costPrice
P2_setProductForm ==
  /\ rev = "P2"
  /\ now < MaxTime
  /\ modalType \in {"add", "edit"}
  /\ \/ \E n \in FormNames : productForm' = [productForm EXCEPT !.name = n]
     \/ productForm' = [productForm EXCEPT !.category = "Geral"]
     \/ \E c \in FormCosts : productForm' = [productForm EXCEPT !.costPrice = c]
     \/ \E c \in FormCodes : productForm' = [productForm EXCEPT !.code = c]
  /\ lastOp' = UiOp
  /\ UNCHANGED <<rev, products, transactions, now, nextId, selectedProduct,
                 modalType, quantity, transactionCost, showConfirmStep,
                 selectedIds, currentUser, pendingImport>>
  /\ UNCHANGED authVars
  /\ RunSaveEffects

\* the product written by the edit branch of handleSaveProduct (part_002:317-326)
P2_EditedProduct(p, form, ts) ==
  LET updatedHistory ==
        IF "costPrice" \in DOMAIN form /\ form.costPrice /= p.costPrice
        THEN Slice(<<[price |-> form.costPrice, date |-> ts]>>
                   \o HistOrEmpty(p.costHistory), HistoryLimit)
        ELSE HistOrEmpty(p.costHistory)
  IN [k \in DOMAIN p |->
        IF k = "costHistory" THEN updatedHistory
        ELSE IF k \in DOMAIN form THEN form[k] ELSE p[k]]

\* the product built by the add branch of handleSaveProduct (part_002:330-345)
P2_AddedProduct(form, ts, id) ==
  [id |-> id, name |-> form.name,
   code |-> IF form.code = "" THEN "N/A" ELSE form.code,
   category |-> form.category,
   unit |-> IF form.unit = "" THEN "KG" ELSE form.unit,
   safetyStock |-> form.safetyStock, minStock |-> form.minStock,
   monthlyConsumption |-> form.monthlyConsumption,
   currentStock |-> form.currentStock, previousStock |-> form.currentStock,
   costPrice |-> form.costPrice, salePrice |-> form.salePrice,
   previousCostPrice |-> form.costPrice,
   costHistory |-> <<[price |-> form.costPrice, date |-> ts]>>]

\* handleSaveProduct (part_002:309-349)
P2_handleSaveProduct ==
  /\ rev = "P2"
  /\ now < MaxTime
  /\ modalType \in {"add", "edit"}
  /\ IF productForm.name = "" \/ productForm.category = ""
     THEN /\ lastOp' = Op("handleSaveProduct", "rejected")
          /\ UNCHANGED <<products, now, nextId, modalVars>>
     ELSE IF modalType = "edit" /\ selectedProduct /= NoProduct
     THEN /\ products' = [i \in 1..Len(products) |->
                            IF products[i].id = selectedProduct.id
                            THEN P2_EditedProduct(products[i], productForm, now)
                            ELSE products[i]]
          /\ now' = now + 1
          /\ UNCHANGED nextId
          /\ P2_closeModalEffect
          /\ lastOp' = Op("handleSaveProduct", "edited")
     ELSE /\ Len(products) < MaxProducts
          /\ products' = <<P2_AddedProduct(productForm, now, nextId)>> \o products
          /\ now' = now + 1
          /\ nextId' = nextId + 1
          /\ P2_closeModalEffect
          /\ lastOp' = Op("handleSaveProduct", "added")
  /\ UNCHANGED <<rev, transactions, selectedIds, currentUser, pendingImport>>
  /\ UNCHANGED authVars
  /\ RunSaveEffects

P2_Next ==
  \/ P2_openTransactionModal
  \/ P2_setQuantity
  \/ P2_setTransactionCost
  \/ P2_closeModal
  \/ P2_handleTransaction
  \/ P2_toggleSelection
  \/ P2_handleBulkZeroStock
  \/ P2_handleBulkAddStock
  \/ P2_setBulkQuantity
  \/ P2_confirmBulkAdd
  \/ P2_handleBulkDelete
  \/ P2_openEditModal
  \/ P2_openAddModal
  \/ P2_setProductForm
  \/ P2_handleSaveProduct

\* ============================ part_001, second component (rev "P1")

\* closeModal (part_001:1093-1108)
P1_closeModalEffect ==
  /\ selectedProduct' = NoProduct
  /\ modalType' = "null"
  /\ quantity' = 0
  /\ transactionCost' = 0
  /\ productForm' = EmptyForm
  /\ UNCHANGED showConfirmStep

P1_closeModal ==
  /\ rev = "P1"
  /\ now < MaxTime
  /\ modalType /= "null"
  /\ P1_closeModalEffect
  /\ lastOp' = UiOp
  /\ UNCHANGED <<rev, products, transactions, now, nextId, selectedIds,
                 currentUser, pendingImport>>
  /\ UNCHANGED authVars
  /\ RunSaveEffects

\* handleEntryAction / handleExitAction (part_001:1419-1429)
P1_handleEntryExitAction ==
  /\ rev = "P1"
  /\ now < MaxTime
  /\ modalType = "null"
  /\ \E i \in 1..Len(products), type \in {ENTRY, EXIT} :
       /\ selectedProduct' = products[i]
       /\ modalType' = type
       /\ transactionCost' = products[i].costPrice
  /\ lastOp' = UiOp
  /\ UNCHANGED <<rev, products, transactions, now, nextId, quantity,
                 showConfirmStep, selectedIds, productForm, currentUser,
                 pendingImport>>
  /\ UNCHANGED authVars
  /\ RunSaveEffects

\* the quantity input of the transaction modal (part_001:1593)
P1_setQuantity ==
  /\ rev = "P1"
  /\ now < MaxTime
  /\ modalType \in TransactionType
  /\ \E q \in Qty : quantity' = q
  /\ lastOp' = UiOp
  /\ UNCHANGED <<rev, products, transactions, now, nextId, selectedProduct,
                 modalType, transactionCost, showConfirmStep, selectedIds,
                 productForm, currentUser, pendingImport>>
  /\ UNCHANGED authVars
  /\ RunSaveEffects

\* the unit cost input, shown for ENTRY and ADJUSTMENT (part_001:1606-1609)
P1_setTransactionCost ==
  /\ rev = "P1"
  /\ now < MaxTime
  /\ modalType \in {ENTRY, ADJUSTMENT}
  /\ \E c \in Cost : transactionCost' = c
  /\ lastOp' = UiOp
  /\ UNCHANGED <<rev, products, transactions, now, nextId, selectedProduct,
                 modalType, quantity, showConfirmStep, selectedIds,
                 productForm, currentUser, pendingImport>>
  /\ UNCHANGED authVars
  /\ RunSaveEffects

\* the ledger record built by handleTransaction (part_001:1285-1296)
P1_NewTransaction(sel, type, q, cost, ts, id) ==
  [id |-> id, productId |-> sel.id, productName |-> sel.name, type |-> type,
   quantity |-> q, unitCost |-> cost, date |-> ts,
   notes |-> IF type /= EXIT /\ cost /= sel.costPrice
             THEN "Preco atualizado" ELSE ""]

\* the cost merge shared by handleTransaction, handleSaveProduct and the
\* import: [{price, date}, ...(old || [])].slice(0, 5) (part_001:1316)
P1_PrependCost(h, price, ts) ==
  Slice(<<[price |-> price, date |-> ts]>> \o HistOrEmpty(h), HistoryLimit)

\* P1_UpdateProduct that rebuilds the record and loses the minStock threshold
P1_UpdateProduct_DropsMinStock(p, type, q, cost, ts) ==
  LET newStock == IF type = ENTRY THEN p.currentStock + q
                  ELSE IF type = EXIT THEN p.currentStock - q
                  ELSE IF type = ADJUSTMENT THEN q
                  ELSE p.currentStock
      newCostPrice == IF type = ENTRY \/ type = ADJUSTMENT THEN cost ELSE p.costPrice
      costChanged == newCostPrice /= p.costPrice
  IN [p EXCEPT !.previousStock = p.currentStock,
               !.currentStock = Max(0, newStock),
               !.minStock = 0,
               !.costPrice = newCostPrice,
               !.previousCostPrice = IF costChanged THEN p.costPrice
                                     ELSE p.previousCostPrice,
               !.costHistory = IF costChanged \/ HistLength(p.costHistory) = 0
                               THEN P1_PrependCost(p.costHistory, newCostPrice, ts)
                               ELSE p.costHistory]

\* the body of products.map for the selected product (part_001:1298-1319)
P1_UpdateProduct(p, type, q, cost, ts) ==
  LET newStock == IF type = ENTRY THEN p.currentStock + q
                  ELSE IF type = EXIT THEN p.currentStock - q
                  ELSE IF type = ADJUSTMENT THEN q
                  ELSE p.currentStock
      newCostPrice == IF type = ENTRY \/ type = ADJUSTMENT THEN cost ELSE p.costPrice
      costChanged == newCostPrice /= p.costPrice
  IN [p EXCEPT !.previousStock = p.currentStock,
               !.currentStock = Max(0, newStock),
               !.costPrice = newCostPrice,
               !.previousCostPrice = IF costChanged THEN p.costPrice
                                     ELSE p.previousCostPrice,
               !.costHistory = IF costChanged \/ HistLength(p.costHistory) = 0
                               THEN P1_PrependCost(p.costHistory, newCostPrice, ts)
                               ELSE p.costHistory]

\* handleTransaction (part_001:1281-1324)
P1_handleTransaction ==
  /\ rev = "P1"
  /\ now < MaxTime
  /\ modalType \in TransactionType
  /\ IF selectedProduct = NoProduct \/ quantity <= 0
     THEN /\ lastOp' = Op("handleTransaction", "rejected")
          /\ UNCHANGED <<products, transactions, now, nextId, modalVars>>
     ELSE /\ transactions' =
               <<P1_NewTransaction(selectedProduct, modalType, quantity,
                                   transactionCost, now, nextId)>> \o transactions
          /\ products' =
               [i \in 1..Len(products) |->
                  IF products[i].id /= selectedProduct.id THEN products[i]
                  ELSE P1_UpdateProduct(products[i], modalType, quantity,
                                        transactionCost, now)]
          /\ now' = now + 1
          /\ nextId' = nextId + 1
          /\ P1_closeModalEffect
          /\ lastOp' = Op("handleTransaction", "committed")
  /\ UNCHANGED <<rev, selectedIds, currentUser, pendingImport>>
  /\ UNCHANGED authVars
  /\ RunSaveEffects

\* handleToggleSelect (part_001:1410-1417)
P1_handleToggleSelect ==
  /\ rev = "P1"
  /\ now < MaxTime
  /\ modalType = "null"
  /\ \E i \in 1..Len(products) :
       selectedIds' = IF products[i].id \in selectedIds
                      THEN selectedIds \ {products[i].id}
                      ELSE selectedIds \cup {products[i].id}
  /\ lastOp' = UiOp
  /\ UNCHANGED <<rev, products, transactions, now, nextId, modalVars,
                 currentUser, pendingImport>>
  /\ UNCHANGED authVars
  /\ RunSaveEffects

\* P1_handleDeleteProduct with the bug of deleting the product's ledger
\* records together with the product
P1_handleDeleteProduct_Cascade ==
  /\ rev = "P1"
  /\ now < MaxTime
  /\ modalType = "null"
  /\ \E i \in 1..Len(products), confirmed \in BOOLEAN :
       IF ~confirmed
       THEN /\ lastOp' = Op("handleDeleteProduct", "rejected")
            /\ UNCHANGED <<products, transactions, selectedIds, now>>
       ELSE /\ products' = SelectSeq(products, LAMBDA p : p.id /= products[i].id)
            /\ transactions' = SelectSeq(transactions,
                                  LAMBDA t : t.productId /= products[i].id)
            /\ selectedIds' = selectedIds \ {products[i].id}
            /\ now' = now + 1
            /\ lastOp' = Op("handleDeleteProduct", "committed")
  /\ UNCHANGED <<rev, nextId, modalVars, currentUser, pendingImport>>
  /\ UNCHANGED authVars
  /\ RunSaveEffects

\* handleDeleteProduct (part_001:1250-1260), the trash button of a card
P1_handleDeleteProduct ==
  /\ rev = "P1"
  /\ now < MaxTime
  /\ modalType = "null"
  /\ \E i \in 1..Len(products), confirmed \in BOOLEAN :
       IF ~confirmed
       THEN /\ lastOp' = Op("handleDeleteProduct", "rejected")
            /\ UNCHANGED <<products, selectedIds, now>>
       ELSE /\ products' = SelectSeq(products, LAMBDA p : p.id /= products[i].id)
            /\ selectedIds' = selectedIds \ {products[i].id}
            /\ now' = now + 1
            /\ lastOp' = Op("handleDeleteProduct", "committed")
  /\ UNCHANGED <<rev, transactions, nextId, modalVars, currentUser,
                 pendingImport>>
  /\ UNCHANGED authVars
  /\ RunSaveEffects

\* handleBulkDelete (part_001:1262-1270); the bulk bar is rendered only
\* while selectedIds.size > 0 (part_001:1818)
P1_handleBulkDelete ==
  /\ rev = "P1"
  /\ now < MaxTime
  /\ modalType = "null"
  /\ selectedIds /= {}
  /\ \E confirmed \in BOOLEAN :
       IF ~confirmed
       THEN /\ lastOp' = Op("handleBulkDelete", "rejected")
            /\ UNCHANGED <<products, selectedIds, now>>
       ELSE /\ products' = SelectSeq(products, LAMBDA p : p.id \notin selectedIds)
            /\ selectedIds' = {}
            /\ now' = now + 1
            /\ lastOp' = Op("handleBulkDelete", "committed")
  /\ UNCHANGED <<rev, transactions, nextId, modalVars, currentUser,
                 pendingImport>>
  /\ UNCHANGED authVars
  /\ RunSaveEffects

\* handleBulkClearStock that stops after the first selected product
P1_ClearStockProduct_FirstOnly(p, sel) ==
  IF p.id \in sel /\ \A o \in sel : p.id <= o
  THEN [p EXCEPT !.currentStock = 0] ELSE p

\* the product returned by the map of handleBulkClearStock (part_001:1274)
P1_ClearStockProduct(p, sel) ==
  IF p.id \in sel THEN [p EXCEPT !.currentStock = 0] ELSE p

\* handleBulkClearStock (part_001:1272-1279)
P1_handleBulkClearStock ==
  /\ rev = "P1"
  /\ now < MaxTime
  /\ modalType = "null"
  /\ selectedIds /= {}
  /\ \E confirmed \in BOOLEAN :
       IF ~confirmed
       THEN /\ lastOp' = Op("handleBulkClearStock", "rejected")
            /\ UNCHANGED <<products, selectedIds, now>>
       ELSE /\ products' = [i \in 1..Len(products) |->
                              P1_ClearStockProduct(products[i], selectedIds)]
            /\ selectedIds' = {}
            /\ now' = now + 1
            /\ lastOp' = Op("handleBulkClearStock", "committed")
  /\ UNCHANGED <<rev, transactions, nextId, modalVars, currentUser,
                 pendingImport>>
  /\ UNCHANGED authVars
  /\ RunSaveEffects

\* handleEditAction (part_001:1431-1435)
P1_handleEditAction ==
  /\ rev = "P1"
  /\ now < MaxTime
  /\ modalType = "null"
  /\ \E i \in 1..Len(products) :
       /\ selectedProduct' = products[i]
       /\ productForm' = products[i]
  /\ modalType' = "edit"
  /\ lastOp' = UiOp
  /\ UNCHANGED <<rev, products, transactions, now, nextId, quantity,
                 transactionCost, showConfirmStep, selectedIds, currentUser,
                 pendingImport>>
  /\ UNCHANGED authVars
  /\ RunSaveEffects

\* the "Novo" button: setModalType('add') (part_001:1805)
P1_openAddModal ==
  /\ rev = "P1"
  /\ now < MaxTime
  /\ modalType = "null"
  /\ modalType' = "add"
  /\ lastOp' = UiOp
  /\ UNCHANGED <<rev, products, transactions, now, nextId, selectedProduct,
                 quantity, transactionCost, showConfirmStep, selectedIds,
                 productForm, currentUser, pendingImport>>
  /\ UNCHANGED authVars
  /\ RunSaveEffects

\* the inputs of the add/edit form (part_001:1635-1738): name, category, costPrice
P1_setProductForm ==
  /\ rev = "P1"
  /\ now < MaxTime
  /\ modalType \in {"add", "edit"}
  /\ \/ \E n \in FormNames : productForm' = [productForm EXCEPT !.name = n]
     \/ productForm' = [productForm EXCEPT !.category = "Geral"]
     \/ \E c \in FormCosts : productForm' = [productForm EXCEPT !.costPrice = c]
     \/ \E c \in FormCodes : productForm' = [productForm EXCEPT !.code = c]
  /\ lastOp' = UiOp
  /\ UNCHANGED <<rev, products, transactions, now, nextId, selectedProduct,
                 modalType, quantity, transactionCost, showConfirmStep,
                 selectedIds, currentUser, pendingImport>>
  /\ UNCHANGED authVars
  /\ RunSaveEffects

\* the product written by the edit branch of handleSaveProduct (part_001:1348-1359)
P1_EditedProduct(p, form, ts) ==
  LET costChanged == "costPrice" \in DOMAIN form /\ form.costPrice /= p.costPrice
  IN [k \in DOMAIN p |->
        IF k = "previousCostPrice"
        THEN IF costChanged THEN p.costPrice ELSE p.previousCostPrice
        ELSE IF k = "costHistory"
        THEN IF costChanged THEN P1_PrependCost(p.costHistory, form.costPrice, ts)
             ELSE p.costHistory
        ELSE IF k \in DOMAIN form THEN form[k] ELSE p[k]]

\* the product built by the add branch of handleSaveProduct (part_001:1362-1378)
P1_AddedProduct(form, ts, id) ==
  [id |-> id, name |-> form.name,
   code |-> IF form.code = "" THEN "N/A" ELSE form.code,
   category |-> form.category,
   unit |-> IF form.unit = "" THEN "KG" ELSE form.unit,
   safetyStock |-> form.safetyStock, minStock |-> form.minStock,
   monthlyConsumption |-> form.monthlyConsumption,
   currentStock |-> form.currentStock, previousStock |-> form.currentStock,
   costPrice |-> form.costPrice, salePrice |-> form.salePrice,
   previousCostPrice |-> form.costPrice,
   costHistory |-> <<[price |-> form.costPrice, date |-> ts]>>]

\* handleSaveProduct (part_001:1337-1383)
P1_handleSaveProduct ==
  /\ rev = "P1"
  /\ now < MaxTime
  /\ modalType \in {"add", "edit"}
  /\ IF productForm.name = "" \/ productForm.category = ""
     THEN /\ lastOp' = Op("handleSaveProduct", "rejected")
          /\ UNCHANGED <<products, now, nextId, modalVars>>
     ELSE IF modalType = "edit" /\ selectedProduct /= NoProduct
     THEN /\ products' = [i \in 1..Len(products) |->
                            IF products[i].id /= selectedProduct.id THEN products[i]
                            ELSE P1_EditedProduct(products[i], productForm, now)]
          /\ now' = now + 1
          /\ UNCHANGED nextId
          /\ P1_closeModalEffect
          /\ lastOp' = Op("handleSaveProduct", "edited")
     ELSE /\ Len(products) < MaxProducts
          /\ products' = <<P1_AddedProduct(productForm, now, nextId)>> \o products
          /\ now' = now + 1
          /\ nextId' = nextId + 1
          /\ P1_closeModalEffect
          /\ lastOp' = Op("handleSaveProduct", "added")
  /\ UNCHANGED <<rev, transactions, selectedIds, currentUser, pendingImport>>
  /\ UNCHANGED authVars
  /\ RunSaveEffects

\* ---- bulk import (part_001:1128-1208)

\* a spreadsheet row after sheet_to_json: the cells the import reads
ImportRow(code, cost, stock) == [code |-> code, costPrice |-> cost, currentStock |-> stock]

ImportRows == { ImportRow(c, k, q) : c \in {"", "c1", "c9"}, k \in Cost, q \in {0} }

\* the files the user can choose: an empty sheet, one row, or two rows
\* that carry the same code
ImportFiles ==
  {<<>>} \cup { <<r>> : r \in ImportRows }
         \cup { <<ImportRow("c9", 1, 0), ImportRow("c9", 2, 0)>> }

\* productData (part_001:1160-1172): missing cells take their defaults
P1_ProductData(row) ==
  [code |-> row.code, name |-> "Material Importado", category |-> "Geral",
   unit |-> "KG", currentStock |-> row.currentStock, minStock |-> 0,
   safetyStock |-> 0, monthlyConsumption |-> 0, costPrice |-> row.costPrice,
   salePrice |-> 0]

\* nextProducts.findIndex(p => p.code === code); 0 stands for -1
FindIndexByCode(ps, code) ==
  IF \E i \in 1..Len(ps) : ps[i].code = code
  THEN CHOOSE i \in 1..Len(ps) :
         /\ ps[i].code = code
         /\ \A j \in 1..(i - 1) : ps[j].code /= code
  ELSE 0

\* the match branch (part_001:1174-1185)
P1_ImportMerged(oldP, productData, ts) ==
  LET costChanged == productData.costPrice /= oldP.costPrice
  IN [k \in DOMAIN oldP |->
        IF k = "previousCostPrice"
        THEN IF costChanged THEN oldP.costPrice ELSE oldP.previousCostPrice
        ELSE IF k = "costHistory"
        THEN IF costChanged
             THEN P1_PrependCost(oldP.costHistory, productData.costPrice, ts)
             ELSE oldP.costHistory
        ELSE IF k \in DOMAIN productData THEN productData[k] ELSE oldP[k]]

\* the no-match branch (part_001:1186-1196)
P1_ImportNew(productData, ts, id) ==
  [id |-> id, code |-> productData.code, name |-> productData.name,
   category |-> productData.category, unit |-> productData.unit,
   currentStock |-> productData.currentStock,
   minStock |-> productData.minStock, safetyStock |-> productData.safetyStock,
   monthlyConsumption |-> productData.monthlyConsumption,
   costPrice |-> productData.costPrice, salePrice |-> productData.salePrice,
   previousStock |-> productData.currentStock,
   previousCostPrice |-> productData.costPrice,
   costHistory |-> <<[price |-> productData.costPrice, date |-> ts]>>]

\* data.forEach(row => ...) over nextProducts (part_001:1154-1197)
RECURSIVE P1_Reconcile(_, _, _, _)
P1_Reconcile(acc, rows, ts, id) ==
  IF rows = <<>> THEN acc
  ELSE LET row == Head(rows)
           existingIndex == FindIndexByCode(acc.products, row.code)
       IN IF row.code = ""
          THEN P1_Reconcile(acc, Tail(rows), ts, id)
          ELSE IF existingIndex > 0
          THEN P1_Reconcile(
                 [acc EXCEPT !.products[existingIndex] =
                                P1_ImportMerged(acc.products[existingIndex],
                                                P1_ProductData(row), ts),
                             !.updatedCount = acc.updatedCount + 1],
                 Tail(rows), ts, id)
          ELSE P1_Reconcile(
                 [acc EXCEPT !.products = Append(acc.products,
                                P1_ImportNew(P1_ProductData(row), ts, id)),
                             !.addedCount = acc.addedCount + 1],
                 Tail(rows), ts, id + 1)

\* the number of skipped rows named by the toast that ends the import
\* (part_001:1200): the message holds addedCount and updatedCount only, and
\* the forEach keeps no count of the rows it returns from early (1156)
P1_ToastSkipped == 0

\* handleBulkImport up to reader.readAsArrayBuffer(file): the onload closure
\* captures the products of this render (part_001:1128-1135, 1206-1207)
P1_handleBulkImport ==
  /\ rev = "P1"
  /\ now < MaxTime
  /\ modalType = "null"
  /\ pendingImport = <<>>
  /\ pendingImport' = <<products>>
  /\ lastOp' = UiOp
  /\ UNCHANGED <<rev, products, transactions, now, nextId, modalVars,
                 selectedIds, currentUser>>
  /\ UNCHANGED authVars
  /\ RunSaveEffects

\* reader.onload (part_001:1135-1205).  A read that was started completes:
\* the callback is not held back by the clock's bound.
P1_importOnload ==
  /\ rev = "P1"
  /\ pendingImport /= <<>>
  /\ \E data \in ImportFiles :
       IF Len(data) = 0
       THEN /\ lastOp' = Op("importOnload", "rejected")
            /\ UNCHANGED <<products, now, nextId>>
       ELSE LET result == P1_Reconcile([products |-> pendingImport[1],
                                        addedCount |-> 0, updatedCount |-> 0],
                                       data, now, nextId)
            IN /\ Len(result.products) <= MaxProducts
               /\ products' = result.products
               /\ now' = now + 1
               /\ nextId' = nextId + result.addedCount
               /\ lastOp' = [op |-> "importOnload", result |-> "committed",
                             added |-> result.addedCount,
                             updated |-> result.updatedCount, rows |-> data]
  /\ pendingImport' = <<>>
  /\ UNCHANGED <<rev, transactions, modalVars, selectedIds, currentUser>>
  /\ UNCHANGED authVars
  /\ RunSaveEffects

P1_Next ==
  \/ P1_handleEntryExitAction
  \/ P1_setQuantity
  \/ P1_setTransactionCost
  \/ P1_closeModal
  \/ P1_handleTransaction
  \/ P1_handleToggleSelect
  \/ P1_handleDeleteProduct
  \/ P1_handleBulkDelete
  \/ P1_handleBulkClearStock
  \/ P1_handleEditAction
  \/ P1_openAddModal
  \/ P1_setProductForm
  \/ P1_handleSaveProduct
  \/ P1_handleBulkImport
  \/ P1_importOnload

\* ===================================================== src/App.tsx (rev "App")

\* interface User, reduced to its role; the user's name is the role's name
Users == {"ADMIN", "VIEWER"}

\* The main view and its dialogs are rendered only while a user is logged in
\* (App.tsx:435): their handlers are guarded by currentUser /= "null".
\* canEdit (App.tsx:295)
canEdit == currentUser = "ADMIN"

\* users.find(x => x.username === ... && x.password === ...): the index of
\* the first stored user with these credentials, 0 for undefined
AuthScreen_Find(us, cred) ==
  IF \E i \in 1..Len(us) : us[i].cred = cred
  THEN CHOOSE i \in 1..Len(us) :
         /\ us[i].cred = cred
         /\ \A j \in 1..(i - 1) : us[j].cred /= cred
  ELSE 0

\* users.filter(x => x.role === role).length
AuthScreen_Count(us, role) == Len(SelectSeq(us, LAMBDA x : x.role = role))

\* AuthScreen.handleAction (App.tsx:166-193) with the form's credentials and
\* role.  getFailedAttempts parses the decimal string incrementFailedAttempts
\* wrote, and an absent key reads as 0 (storageService.ts:38-50).
AuthScreen_handleAction(cred, role) ==
  IF isLocked
  THEN /\ lastOp' = Op("handleAction", "locked")
       /\ UNCHANGED <<currentUser, authVars>>
  ELSE IF authMode = "login"
  THEN LET u == AuthScreen_Find(users, cred) IN
       IF u > 0
       THEN /\ failedAttempts' = 0
            /\ currentUser' = users[u].role
            /\ lastOp' = UiOp
            /\ UNCHANGED <<users, isLocked, authMode>>
       ELSE LET attempts == failedAttempts + 1 IN
            /\ failedAttempts' = attempts
            /\ isLocked' = IF attempts >= MaxAttempts THEN TRUE ELSE isLocked
            /\ lastOp' = Op("handleAction", "invalid")
            /\ UNCHANGED <<currentUser, users, authMode>>
  ELSE IF \/ role = "ADMIN" /\ AuthScreen_Count(users, "ADMIN") >= MaxAdmins
          \/ role = "VIEWER" /\ AuthScreen_Count(users, "VIEWER") >= MaxViewers
  THEN /\ lastOp' = Op("handleAction", "limit")
       /\ UNCHANGED <<currentUser, authVars>>
  ELSE /\ users' = Append(users, User(cred, role))
       /\ authMode' = "login"
       /\ lastOp' = Op("handleAction", "registered")
       /\ UNCHANGED <<currentUser, failedAttempts, isLocked>>

\* a login with the credentials of a stored user: "Conectar" (App.tsx:221),
\* rendered while no user is logged in and the screen is not locked
\* (App.tsx:202, 435)
App_onAuth ==
  /\ rev = "App"
  /\ now < MaxTime
  /\ currentUser = "null"
  /\ ~isLocked
  /\ authMode = "login"
  /\ \E i \in 1..Len(users) : AuthScreen_handleAction(users[i].cred, "VIEWER")
  /\ UNCHANGED <<rev, products, transactions, now, nextId, modalVars,
                 selectedIds, pendingImport>>
  /\ RunSaveEffects

\* "Conectar" / "Criar Conta" with anything typed into the form
\* (App.tsx:221)
AuthScreen_submit ==
  /\ rev = "App"
  /\ currentUser = "null"
  /\ ~isLocked
  /\ authMode = "register" => Len(users) < MaxUsers
  /\ \E cred \in Credentials, role \in Users : AuthScreen_handleAction(cred, role)
  /\ UNCHANGED <<rev, products, transactions, now, nextId, modalVars,
                 selectedIds, pendingImport>>
  /\ RunSaveEffects

\* the link under the form: setMode(mode === 'login' ? 'register' : 'login')
\* (App.tsx:225)
AuthScreen_setMode ==
  /\ rev = "App"
  /\ currentUser = "null"
  /\ ~isLocked
  /\ authMode' = IF authMode = "login" THEN "register" ELSE "login"
  /\ lastOp' = UiOp
  /\ UNCHANGED <<rev, products, transactions, now, nextId, modalVars,
                 selectedIds, pendingImport, currentUser, users,
                 failedAttempts, isLocked>>
  /\ RunSaveEffects

\* the logout button of the sidebar: setCurrentUser(null) (App.tsx:457).
\* The button stays rendered and in the tab order while a dialog is open
\* (the dialogs' overlay, App.tsx:716-777, only covers it for the pointer),
\* and the handler leaves the dialog state as it is.  AuthScreen is mounted
\* again: its state starts afresh and its mount effect runs.
App_logout ==
  /\ rev = "App"
  /\ now < MaxTime
  /\ currentUser /= "null"
  /\ currentUser' = "null"
  /\ isLocked' = AuthScreen_MountLocked(failedAttempts)
  /\ authMode' = "login"
  /\ lastOp' = UiOp
  /\ UNCHANGED <<rev, products, transactions, now, nextId, modalVars,
                 selectedIds, pendingImport, users, failedAttempts>>
  /\ RunSaveEffects

\* handleEntry (App.tsx:297-301); the card shows the button only if canEdit
App_handleEntry ==
  /\ rev = "App"
  /\ now < MaxTime
  /\ canEdit
  /\ modalType = "null"
  /\ \E i \in 1..Len(products) :
       /\ selectedProduct' = products[i]
       /\ transactionCost' = products[i].costPrice
  /\ modalType' = ENTRY
  /\ lastOp' = UiOp
  /\ UNCHANGED <<rev, products, transactions, now, nextId, quantity,
                 showConfirmStep, selectedIds, productForm, currentUser,
                 pendingImport>>
  /\ UNCHANGED authVars
  /\ RunSaveEffects

\* handleExit (App.tsx:303-306)
App_handleExit ==
  /\ rev = "App"
  /\ now < MaxTime
  /\ canEdit
  /\ modalType = "null"
  /\ \E i \in 1..Len(products) : selectedProduct' = products[i]
  /\ modalType' = EXIT
  /\ lastOp' = UiOp
  /\ UNCHANGED <<rev, products, transactions, now, nextId, quantity,
                 transactionCost, showConfirmStep, selectedIds, productForm,
                 currentUser, pendingImport>>
  /\ UNCHANGED authVars
  /\ RunSaveEffects

\* handleEdit (App.tsx:308-312)
App_handleEdit ==
  /\ rev = "App"
  /\ now < MaxTime
  /\ canEdit
  /\ modalType = "null"
  /\ \E i \in 1..Len(products) :
       /\ selectedProduct' = products[i]
       /\ productForm' = products[i]
  /\ modalType' = "edit"
  /\ lastOp' = UiOp
  /\ UNCHANGED <<rev, products, transactions, now, nextId, quantity,
                 transactionCost, showConfirmStep, selectedIds, currentUser,
                 pendingImport>>
  /\ UNCHANGED authVars
  /\ RunSaveEffects

\* handleDeleteClick (App.tsx:314-317)
App_handleDeleteClick ==
  /\ rev = "App"
  /\ now < MaxTime
  /\ canEdit
  /\ modalType = "null"
  /\ \E i \in 1..Len(products) : selectedProduct' = products[i]
  /\ modalType' = "delete"
  /\ lastOp' = UiOp
  /\ UNCHANGED <<rev, products, transactions, now, nextId, quantity,
                 transactionCost, showConfirmStep, selectedIds, productForm,
                 currentUser, pendingImport>>
  /\ UNCHANGED authVars
  /\ RunSaveEffects

\* the "Novo" button (App.tsx:466-467)
App_openAddModal ==
  /\ rev = "App"
  /\ now < MaxTime
  /\ canEdit
  /\ modalType = "null"
  /\ productForm' = [category |-> "Especiarias", unit |-> "UN"]
  /\ modalType' = "add"
  /\ lastOp' = UiOp
  /\ UNCHANGED <<rev, products, transactions, now, nextId, selectedProduct,
                 quantity, transactionCost, showConfirmStep, selectedIds,
                 currentUser, pendingImport>>
  /\ UNCHANGED authVars
  /\ RunSaveEffects

\* the quantity input of the transaction modal (App.tsx:784)
App_setQuantity ==
  /\ rev = "App"
  /\ now < MaxTime
  /\ currentUser /= "null"
  /\ modalType \in {ENTRY, EXIT} /\ selectedProduct /= NoProduct
  /\ \E q \in Qty : quantity' = q
  /\ lastOp' = UiOp
  /\ UNCHANGED <<rev, products, transactions, now, nextId, selectedProduct,
                 modalType, transactionCost, showConfirmStep, selectedIds,
                 productForm, currentUser, pendingImport>>
  /\ UNCHANGED authVars
  /\ RunSaveEffects

\* the cost input, shown for ENTRY only (App.tsx:786-790)
App_setTransCost ==
  /\ rev = "App"
  /\ now < MaxTime
  /\ currentUser /= "null"
  /\ modalType = ENTRY /\ selectedProduct /= NoProduct
  /\ \E c \in Cost : transactionCost' = c
  /\ lastOp' = UiOp
  /\ UNCHANGED <<rev, products, transactions, now, nextId, selectedProduct,
                 modalType, quantity, showConfirmStep, selectedIds,
                 productForm, currentUser, pendingImport>>
  /\ UNCHANGED authVars
  /\ RunSaveEffects

\* "Voltar" of the transaction modal (App.tsx:793)
App_cancelTransaction ==
  /\ rev = "App"
  /\ now < MaxTime
  /\ currentUser /= "null"
  /\ modalType \in {ENTRY, EXIT} /\ selectedProduct /= NoProduct
  /\ modalType' = "null"
  /\ selectedProduct' = NoProduct
  /\ lastOp' = UiOp
  /\ UNCHANGED <<rev, products, transactions, now, nextId, quantity,
                 transactionCost, showConfirmStep, selectedIds, productForm,
                 currentUser, pendingImport>>
  /\ UNCHANGED authVars
  /\ RunSaveEffects

\* "Cancelar" of the delete and of the add/edit modal (App.tsx:722, 755)
App_cancelModal ==
  /\ rev = "App"
  /\ now < MaxTime
  /\ currentUser /= "null"
  /\ modalType \in {"delete", "add", "edit"}
  /\ modalType' = "null"
  /\ lastOp' = UiOp
  /\ UNCHANGED <<rev, products, transactions, now, nextId, selectedProduct,
                 quantity, transactionCost, showConfirmStep, selectedIds,
                 productForm, currentUser, pendingImport>>
  /\ UNCHANGED authVars
  /\ RunSaveEffects

\* newTrans (App.tsx:401-406)
App_NewTransaction(sel, type, q, transCost, ts, id, user) ==
  [id |-> id, productId |-> sel.id, productName |-> sel.name, type |-> type,
   quantity |-> q,
   unitCost |-> IF type = ENTRY THEN transCost ELSE sel.costPrice,
   date |-> ts, notes |-> "", userName |-> user]

\* newHistory (App.tsx:416)
App_NewHistory(p, isEntry, transCost, ts) ==
  IF isEntry
  THEN HistOrEmpty(p.costHistory) \o <<[price |-> transCost, date |-> ts]>>
  ELSE HistOrEmpty(p.costHistory)

\* the body of prev.map for the selected product (App.tsx:409-423)
App_UpdateProduct(p, type, q, transCost, ts) ==
  LET isEntry == type = ENTRY
      newStock == IF type = ENTRY THEN p.currentStock + q
                  ELSE IF type = EXIT THEN p.currentStock - q
                  ELSE p.currentStock
  IN [p EXCEPT !.currentStock = Max(0, newStock),
               !.previousCostPrice = IF isEntry /\ transCost /= p.costPrice
                                     THEN p.costPrice ELSE p.previousCostPrice,
               !.costPrice = IF isEntry THEN transCost ELSE p.costPrice,
               !.costHistory = App_NewHistory(p, isEntry, transCost, ts)]

\* handleTransaction (App.tsx:398-426), the modal's "Confirmar"
App_handleTransaction ==
  /\ rev = "App"
  /\ now < MaxTime
  /\ currentUser /= "null"
  /\ modalType \in {ENTRY, EXIT} /\ selectedProduct /= NoProduct
  /\ IF selectedProduct = NoProduct \/ currentUser = "null" \/ modalType = "null"
     THEN /\ lastOp' = Op("handleTransaction", "rejected")
          /\ UNCHANGED <<products, transactions, now, nextId, modalVars>>
     ELSE /\ transactions' =
               <<App_NewTransaction(selectedProduct, modalType, quantity,
                                    transactionCost, now, nextId, currentUser)>>
               \o transactions
          /\ products' =
               [i \in 1..Len(products) |->
                  IF products[i].id /= selectedProduct.id THEN products[i]
                  ELSE App_UpdateProduct(products[i], modalType, quantity,
                                         transactionCost, now)]
          /\ now' = now + 1
          /\ nextId' = nextId + 1
          /\ modalType' = "null"
          /\ quantity' = 0
          /\ selectedProduct' = NoProduct
          /\ lastOp' = Op("handleTransaction", "committed")
          /\ UNCHANGED <<transactionCost, showConfirmStep, productForm>>
  /\ UNCHANGED <<rev, selectedIds, currentUser, pendingImport>>
  /\ UNCHANGED authVars
  /\ RunSaveEffects

\* confirmDelete (App.tsx:428-433), "Sim, Excluir" of the delete modal
App_confirmDelete ==
  /\ rev = "App"
  /\ now < MaxTime
  /\ currentUser /= "null"
  /\ modalType = "delete" /\ selectedProduct /= NoProduct
  /\ products' = SelectSeq(products, LAMBDA p : p.id /= selectedProduct.id)
  /\ now' = now + 1
  /\ modalType' = "null"
  /\ selectedProduct' = NoProduct
  /\ lastOp' = Op("confirmDelete", "committed")
  /\ UNCHANGED <<rev, transactions, nextId, quantity, transactionCost,
                 showConfirmStep, selectedIds, productForm, currentUser,
                 pendingImport>>
  /\ UNCHANGED authVars
  /\ RunSaveEffects

\* setForm({...form, field: value})
WithField(form, k, v) == (k :> v) @@ form

\* the inputs of the add/edit modal (App.tsx:737-752): name and costPrice
App_setForm ==
  /\ rev = "App"
  /\ now < MaxTime
  /\ currentUser /= "null"
  /\ modalType \in {"add", "edit"}
  /\ \/ \E n \in FormNames : productForm' = WithField(productForm, "name", n)
     \/ \E c \in FormCosts : productForm' = WithField(productForm, "costPrice", c)
     \/ \E c \in FormCodes : productForm' = WithField(productForm, "code", c)
  /\ lastOp' = UiOp
  /\ UNCHANGED <<rev, products, transactions, now, nextId, selectedProduct,
                 modalType, quantity, transactionCost, showConfirmStep,
                 selectedIds, currentUser, pendingImport>>
  /\ UNCHANGED authVars
  /\ RunSaveEffects

\* form.field || fallback, for a text field and for a numeric field
OrElseText(form, k, fallback) ==
  IF k \in DOMAIN form THEN (IF form[k] = "" THEN fallback ELSE form[k]) ELSE fallback

OrElseNumber(form, k, fallback) ==
  IF k \in DOMAIN form THEN (IF form[k] = 0 THEN fallback ELSE form[k]) ELSE fallback

\* newProduct (App.tsx:760-766)
App_NewProduct(form, id) ==
  [id |-> id, code |-> OrElseText(form, "code", "000"),
   name |-> OrElseText(form, "name", "Sem Nome"),
   category |-> OrElseText(form, "category", "Geral"),
   unit |-> OrElseText(form, "unit", "UN"),
   currentStock |-> 0, previousStock |-> Undef,
   costPrice |-> OrElseNumber(form, "costPrice", 0),
   salePrice |-> OrElseNumber(form, "salePrice", 0),
   minStock |-> OrElseNumber(form, "minStock", 0),
   safetyStock |-> (OrElseNumber(form, "minStock", 0) * 3) \div 2,
   monthlyConsumption |-> OrElseNumber(form, "monthlyConsumption", 0),
   previousCostPrice |-> Undef, costHistory |-> <<>>]

\* ({ ...p, ...form } as Product) (App.tsx:758)
App_EditedProduct(p, form) ==
  [k \in DOMAIN p |-> IF k \in DOMAIN form THEN form[k] ELSE p[k]]

\* "Gravar Informacoes" of the add/edit modal (App.tsx:756-770)
App_saveProduct ==
  /\ rev = "App"
  /\ now < MaxTime
  /\ currentUser /= "null"
  /\ modalType \in {"add", "edit"}
  /\ IF modalType = "edit" /\ selectedProduct /= NoProduct
     THEN /\ products' = [i \in 1..Len(products) |->
                            IF products[i].id = selectedProduct.id
                            THEN App_EditedProduct(products[i], productForm)
                            ELSE products[i]]
          /\ UNCHANGED nextId
          /\ lastOp' = Op("saveProduct", "edited")
     ELSE /\ Len(products) < MaxProducts
          /\ products' = <<App_NewProduct(productForm, nextId)>> \o products
          /\ nextId' = nextId + 1
          /\ lastOp' = Op("saveProduct", "added")
  /\ now' = now + 1
  /\ modalType' = "null"
  /\ productForm' = <<>>
  /\ selectedProduct' = NoProduct
  /\ UNCHANGED <<rev, transactions, quantity, transactionCost, showConfirmStep,
                 selectedIds, currentUser, pendingImport>>
  /\ UNCHANGED authVars
  /\ RunSaveEffects

App_Next ==
  \/ App_onAuth
  \/ App_logout
  \/ App_handleEntry
  \/ App_handleExit
  \/ App_handleEdit
  \/ App_handleDeleteClick
  \/ App_openAddModal
  \/ App_setQuantity
  \/ App_setTransCost
  \/ App_cancelTransaction
  \/ App_cancelModal
  \/ App_handleTransaction
  \/ App_confirmDelete
  \/ App_setForm
  \/ App_saveProduct

Next ==
  \/ P2_Next
  \/ P1_Next
  \/ App_Next

Spec == Init /\ [][Next]_vars

\* ------------------------------------------------- a longer session, part_001
\* One user of part_001 who imports a sheet, adds products and records
\* transactions, from a stored catalog of one legacy product.  The clock
\* starts three ticks before its bound, so that three commits fit; clock
\* values are labels of instants, of which only the order matters.
LongStored ==
  [products |-> <<Product(1, "c1", "A", 3, 1, Undef, NoHist)>>,
   transactions |-> <<>>]

LongInit ==
  /\ rev = "P1"
  /\ products = Mount(rev, LongStored).memory.products
  /\ transactions = Mount(rev, LongStored).memory.transactions
  /\ storage = Mount(rev, LongStored).storage
  /\ now = MaxTime - 3
  /\ nextId = 4
  /\ selectedProduct = NoProduct
  /\ modalType = "null"
  /\ quantity = 0
  /\ transactionCost = 0
  /\ showConfirmStep = FALSE
  /\ selectedIds = {}
  /\ productForm = EmptyForm
  /\ currentUser = "null"
  /\ pendingImport = <<>>
  /\ users = StoredUsers
  /\ failedAttempts = 0
  /\ isLocked = AuthScreen_MountLocked(0)
  /\ authMode = "login"
  /\ lastOp = Op("mount", "ok")

LongNext ==
  \/ P1_handleBulkImport
  \/ P1_importOnload
  \/ P1_openAddModal
  \/ P1_setProductForm
  \/ P1_handleSaveProduct
  \/ P1_handleEntryExitAction
  \/ P1_setQuantity
  \/ P1_handleTransaction

LongSpec == LongInit /\ [][LongNext]_vars

\* ------------------------------------------------------ the login screen
\* App.tsx in front of its login screen: what the stored users and the
\* stored counter of failed logins can be on mount, and the screen's handlers
AuthInit ==
  /\ rev = "App"
  /\ products = Mount(rev, LongStored).memory.products
  /\ transactions = Mount(rev, LongStored).memory.transactions
  /\ storage = Mount(rev, LongStored).storage
  /\ now = 1
  /\ nextId = 4
  /\ selectedProduct = NoProduct
  /\ modalType = "null"
  /\ quantity = 0
  /\ transactionCost = 0
  /\ showConfirmStep = FALSE
  /\ selectedIds = {}
  /\ productForm = <<>>
  /\ currentUser = "null"
  /\ pendingImport = <<>>
  /\ users \in {<<>>, StoredUsers}
  /\ failedAttempts \in {0, MaxAttempts}
  /\ isLocked = AuthScreen_MountLocked(failedAttempts)
  /\ authMode = "login"
  /\ lastOp = Op("mount", "ok")

AuthNext ==
  \/ AuthScreen_submit
  \/ AuthScreen_setMode
  \/ App_logout

AuthSpec == AuthInit /\ [][AuthNext]_vars

\* ========================================================= derived values
\* what the views and the export compute from a product of the catalog

\* Math.floor(a / b) for a >= 0, b > 0
Floor(a, b) == a \div b

\* Math.round(a / b) for a >= 0, b > 0: halves round up
Round(a, b) == (2 * a + b) \div (2 * b)

\* the value shown where a forecast cannot be computed (null, 'Indeterminada')
NoDays == Undef

\* the alert filter of the inventory (App.tsx:335-336)
App_alertStatus(p) ==
  LET isCritical == p.currentStock <= p.minStock
      isAttention == p.currentStock > p.minStock /\ p.currentStock <= p.safetyStock
  IN IF isCritical THEN "CRITICAL" ELSE IF isAttention THEN "ATTENTION" ELSE "NORMAL"

\* the colour of a product card: isRed, isYellow (part_001:753-754,
\* part_002:448-449); currentStock <= minStock * 1.5 is compared in halves
CardStatus(p) ==
  LET isRed == p.currentStock <= p.minStock
      isYellow == ~isRed /\ 2 * p.currentStock <= 3 * p.minStock
  IN IF isRed THEN "CRITICAL" ELSE IF isYellow THEN "ATTENTION" ELSE "NORMAL"

\* the Status column of the Excel export (exportService.ts:51-58)
ExportStatus(p) ==
  IF p.currentStock = 0 THEN "ESGOTADO"
  ELSE IF p.currentStock <= p.minStock THEN "CRITICAL"
  ELSE IF p.currentStock <= p.safetyStock THEN "ATTENTION"
  ELSE "NORMAL"

\* daysCoverage of the product card (App.tsx:48-51)
App_daysCoverage(p) ==
  IF p.monthlyConsumption <= 0 THEN 999
  ELSE Round(p.currentStock * 30, p.monthlyConsumption)

\* the autonomy cell of the list view (App.tsx:571)
App_listAutonomy(p) ==
  IF p.monthlyConsumption > 0
  THEN Round(p.currentStock * 30, p.monthlyConsumption) ELSE NoDays

\* autonomyDays of the product card (part_001:756)
P1_autonomyDays(p) ==
  IF p.monthlyConsumption > 0
  THEN Floor(p.currentStock * 30, p.monthlyConsumption) ELSE 0

\* autonomyDays of the product card (part_002:454-456)
P2_autonomyDays(p) ==
  IF p.monthlyConsumption > 0
  THEN Floor(p.currentStock * 30, p.monthlyConsumption) ELSE NoDays

\* the 'Autonomia em Dias' column of the Excel export (exportService.ts:46-48, 74)
ExportAutonomy(p) ==
  IF p.monthlyConsumption > 0
  THEN Floor(p.currentStock * 30, p.monthlyConsumption) ELSE NoDays

\* every status the revision shows for a product
StatusesShown(p) ==
  {ExportStatus(p)} \cup
  (IF rev = "App" THEN {App_alertStatus(p)} ELSE {CardStatus(p)})

\* every autonomy forecast the revision shows for a product
AutonomiesShown(p) ==
  {ExportAutonomy(p)} \cup
  (IF rev = "App" THEN {App_daysCoverage(p), App_listAutonomy(p)}
   ELSE IF rev = "P1" THEN {P1_autonomyDays(p)}
   ELSE {P2_autonomyDays(p)})

\* ================================================================ claims

\* the step just taken ran this handler and committed
Committed(name) == lastOp' = Op(name, "committed")

\* the ledger records the step added, newest first
NewEntries == SubSeq(transactions', 1, Len(transactions') - Len(transactions))

\* the ledger only grew at its head
LedgerExtended ==
  /\ Len(transactions') >= Len(transactions)
  /\ SubSeq(transactions', Len(transactions') - Len(transactions) + 1,
            Len(transactions')) = transactions

\* the ids of the products present before and after the step
Kept == Ids(products) \cap Ids(products')

\* the handlers that move stock: transactions and the bulk stock operations
StockHandlers ==
  {"handleTransaction", "handleBulkZeroStock", "confirmBulkAdd",
   "handleBulkClearStock"}

\* C1: from a catalog whose stocks are all >= 0, every product's currentStock
\* is >= 0 after any sequence of committed transactions and bulk operations.
C1_StockNonNegative ==
  \A i \in 1..Len(products) : products[i].currentStock >= 0

\* rev P1: an EXIT that asked for more than was in stock has been committed
C1_Witness ==
  /\ rev = "P1"
  /\ lastOp = Op("handleTransaction", "committed")
  /\ transactions[1].type = EXIT
  /\ \E i \in 1..Len(products) :
       /\ products[i].id = transactions[1].productId
       /\ products[i].previousStock < transactions[1].quantity
       /\ products[i].currentStock = 0

\* C2: the ledger and the catalog are paired: a step of a transaction or of a
\* bulk stock operation that changes a product's currentStock adds exactly
\* one ledger record for that product, and every record it adds belongs to a
\* product of the catalog.
C2_LedgerPaired ==
  [][lastOp'.op \in StockHandlers =>
       /\ LedgerExtended
       /\ \A id \in Kept :
            ById(products', id).currentStock /= ById(products, id).currentStock
            => Cardinality({k \in 1..Len(NewEntries) :
                              NewEntries[k].productId = id}) = 1
       /\ \A k \in 1..Len(NewEntries) : NewEntries[k].productId \in Ids(products)]_vars

\* C3: every product's costHistory holds at most 5 entries.
C3_HistoryBounded ==
  \A i \in 1..Len(products) : HistLength(products[i].costHistory) <= HistoryLimit

\* C4: right after a mutation that changes a product's costPrice, the head of
\* its costHistory is {price: the new costPrice, date: the time of the mutation}.
C4_HeadIsNewCost ==
  [][\A id \in Kept :
       ById(products', id).costPrice /= ById(products, id).costPrice
       => /\ HistLength(ById(products', id).costHistory) > 0
          /\ ById(products', id).costHistory[1] =
               [price |-> ById(products', id).costPrice, date |-> now]]_vars

\* C5: a committed EXIT leaves the product's costPrice, previousCostPrice and
\* costHistory exactly as they were, also when the history is empty or
\* undefined (an undefined history and an empty one count as the same).
C5_ExitKeepsCost ==
  [][(Committed("handleTransaction") /\ modalType = EXIT) =>
       \A id \in Kept :
         /\ ById(products', id).costPrice = ById(products, id).costPrice
         /\ ById(products', id).previousCostPrice = ById(products, id).previousCostPrice
         /\ HistOrEmpty(ById(products', id).costHistory) =
              HistOrEmpty(ById(products, id).costHistory)]_vars

\* C6: in one mutation of a product, previousCostPrice changes if and only if
\* costPrice changes: when costPrice changes previousCostPrice takes the
\* replaced cost, and when costPrice stays previousCostPrice stays.
C6_PreviousCostIff ==
  [][\A id \in Kept :
       IF ById(products', id).costPrice /= ById(products, id).costPrice
       THEN ById(products', id).previousCostPrice = ById(products, id).costPrice
       ELSE ById(products', id).previousCostPrice =
              ById(products, id).previousCostPrice]_vars

\* C7: an EXIT of quantity q on a product with stock s is committed, sets
\* the stock to max(0, s - q), and its ledger record carries the requested
\* q as quantity, also when q > s.
C7_ExitClamps ==
  [][(Committed("handleTransaction") /\ modalType = EXIT) =>
       /\ transactions' = <<transactions'[1]>> \o transactions
       /\ transactions'[1].type = EXIT
       /\ transactions'[1].productId = selectedProduct.id
       /\ transactions'[1].quantity = quantity
       /\ \A id \in Kept :
            id = selectedProduct.id
            => ById(products', id).currentStock =
                 Max(0, ById(products, id).currentStock - quantity)]_vars

\* rev P2: an EXIT of more than the stock has been committed; the stock is 0
\* and the record holds the requested quantity
C7_Witness ==
  /\ rev = "P2"
  /\ lastOp = Op("handleTransaction", "committed")
  /\ Len(transactions) > 0
  /\ transactions[1].type = EXIT
  /\ \E i \in 1..Len(products) :
       /\ products[i].id = transactions[1].productId
       /\ products[i].previousStock > 0
       /\ products[i].previousStock < transactions[1].quantity
       /\ products[i].currentStock = 0

\* C8: an ENTRY or EXIT request with quantity <= 0 is rejected: it adds no
\* ledger record and changes no product.
C8_NonPositiveRejected ==
  [][(lastOp'.op = "handleTransaction" /\ modalType \in {ENTRY, EXIT}
      /\ quantity <= 0)
     => UNCHANGED <<products, transactions>>]_vars

\* C9: the ledger is append-only: no step removes, reorders or changes a
\* committed record; a step can only put new records in front of it.
C9_LedgerAppendOnly == [][LedgerExtended]_vars

\* a product was deleted and a ledger record that names it is still there
C9_Witness ==
  /\ lastOp.op \in {"handleDeleteProduct", "handleBulkDelete", "confirmDelete"}
  /\ lastOp.result = "committed"
  /\ \E k \in 1..Len(transactions) : transactions[k].productId \notin Ids(products)

\* C10: bulk zero-stock sets every selected product's stock to 0, adds one
\* ADJUSTMENT-to-0 record for each selected product whose stock was > 0 and
\* none for the others, and leaves a selected product already at 0 unchanged.
C10_BulkZero ==
  [][(Committed("handleBulkZeroStock") \/ Committed("handleBulkClearStock")) =>
       /\ LedgerExtended
       /\ \A id \in Ids(products) \cap selectedIds :
            LET before == ById(products, id)
                after == ById(products', id)
                mine == {k \in 1..Len(NewEntries) : NewEntries[k].productId = id}
            IN /\ id \in Ids(products')
               /\ after.currentStock = 0
               /\ IF before.currentStock > 0
                  THEN /\ Cardinality(mine) = 1
                       /\ \A k \in mine : /\ NewEntries[k].type = ADJUSTMENT
                                           /\ NewEntries[k].quantity = 0
                  ELSE /\ mine = {}
                       /\ after = before
       /\ \A k \in 1..Len(NewEntries) : NewEntries[k].productId \in selectedIds]_vars

\* the import that has just been committed, run once more with the same rows
\* on the catalog it produced
SecondRun ==
  P1_Reconcile([products |-> products, addedCount |-> 0, updatedCount |-> 0],
               lastOp.rows, now, nextId)

\* an import has just been committed
Imported == lastOp.op = "importOnload" /\ lastOp.result = "committed"

\* C11: running the import a second time with the same rows on the result of
\* the first run reports updated: 0 and added: 0.
C11_SecondRunCountsZero ==
  Imported => (SecondRun.updatedCount = 0 /\ SecondRun.addedCount = 0)

\* C12: running the import a second time with the same rows leaves the
\* catalog unchanged, also when several rows carry the same code with
\* different costs: no product field changes, no costHistory entry is added.
C12_SecondRunNoChange ==
  Imported => SecondRun.products = products

\* C13: a product's status is CRITICAL if currentStock <= minStock, else
\* ATTENTION if currentStock <= safetyStock, else NORMAL, and every place
\* that classifies a product (alert filter, cards, Excel export) shows it.
C13_StatusAgrees ==
  \A i \in 1..Len(products) :
    LET p == products[i]
        status == IF p.currentStock <= p.minStock THEN "CRITICAL"
                  ELSE IF p.currentStock <= p.safetyStock THEN "ATTENTION"
                  ELSE "NORMAL"
    IN \A shown \in StatusesShown(p) : shown = status

\* C14: the autonomy forecast is floor(currentStock * 30 / monthlyConsumption)
\* when monthlyConsumption > 0 and the non-numeric sentinel otherwise, in
\* every place that computes it.
C14_AutonomyAgrees ==
  \A i \in 1..Len(products) :
    LET p == products[i]
        days == IF p.monthlyConsumption > 0
                THEN (p.currentStock * 30) \div p.monthlyConsumption
                ELSE NoDays
    IN \A shown \in AutonomiesShown(p) : shown = days

\* the catalog's record of the product the open modal is about
Selected == ById(products, selectedProduct.id)

\* the same product after the step
SelectedAfter == ById(products', selectedProduct.id)

\* the step ran handleTransaction for a product of the catalog
TransactionStep(types) ==
  /\ lastOp'.op = "handleTransaction"
  /\ modalType \in types
  /\ selectedProduct.id \in Kept

C16_EntryNewCost ==
  [][(TransactionStep({ENTRY}) /\ lastOp'.result = "committed" /\ quantity > 0
      /\ transactionCost /= Selected.costPrice) =>
       /\ SelectedAfter.currentStock = Selected.currentStock + quantity
       /\ SelectedAfter.costPrice = transactionCost
       /\ SelectedAfter.previousCostPrice = Selected.costPrice
       /\ SelectedAfter.costHistory =
            Slice(<<[price |-> transactionCost, date |-> now]>>
                    \o HistOrEmpty(Selected.costHistory), HistoryLimit)]_vars

\* C17: a committed ENTRY or ADJUSTMENT whose unit cost equals the product's
\* costPrice, on a product with a non-empty costHistory, leaves costHistory
\* unchanged.
C17_SameCostKeepsHistory ==
  [][(TransactionStep({ENTRY, ADJUSTMENT}) /\ lastOp'.result = "committed"
      /\ quantity > 0
      /\ transactionCost = Selected.costPrice
      /\ HistLength(Selected.costHistory) > 0) =>
       SelectedAfter.costHistory = Selected.costHistory]_vars

\* C18: no mutation is committed between the moment an import reads the
\* catalog and the moment it writes its result: what a committed import
\* writes is the reconciliation of the catalog as it is at that moment, so
\* that no transaction, edit or deletion committed by another handler is lost.
C18_ImportSeesCurrentCatalog ==
  [][(lastOp'.op = "importOnload" /\ lastOp'.result = "committed") =>
       /\ pendingImport[1] = products
       /\ products' = P1_Reconcile([products |-> products, addedCount |-> 0,
                                    updatedCount |-> 0],
                                   lastOp'.rows, now, nextId).products]_vars

\* C19: after every committed operation, and after the mount, the persisted
\* catalog and ledger equal the catalog and ledger in memory, also when the
\* commit empties the catalog.
C19_StorageInSync ==
  /\ storage.products = products
  /\ storage.transactions = transactions

\* C20: in every reachable state no two products of the catalog carry the
\* same code: adding, duplicating, editing a code and importing rows keep
\* the codes of the catalog distinct.
C20_CodesUnique ==
  \A i, j \in 1..Len(products) :
    i /= j => products[i].code /= products[j].code

\* the ids of the selected products, in catalog order
SelectedInOrder ==
  LET sel == SelectSeq(products, LAMBDA p : p.id \in selectedIds)
  IN [k \in 1..Len(sel) |-> sel[k].id]

\* C21: bulk add of a quantity q > 0 over a non-empty selection raises each
\* selected product's currentStock by exactly q, leaves its costPrice,
\* previousCostPrice and costHistory alone, leaves unselected products
\* unchanged, and adds one ENTRY record per selected product, in catalog
\* order, with quantity q and the product's own costPrice as unitCost.
C21_BulkAdd ==
  [][(lastOp'.op = "confirmBulkAdd" /\ quantity > 0 /\ selectedIds /= {}) =>
       /\ Len(products') = Len(products)
       /\ \A i \in 1..Len(products) :
            IF products[i].id \in selectedIds
            THEN /\ products'[i].id = products[i].id
                 /\ products'[i].currentStock = products[i].currentStock + quantity
                 /\ products'[i].costPrice = products[i].costPrice
                 /\ products'[i].previousCostPrice = products[i].previousCostPrice
                 /\ products'[i].costHistory = products[i].costHistory
            ELSE products'[i] = products[i]
       /\ LedgerExtended
       /\ Len(NewEntries) = Len(SelectedInOrder)
       /\ \A k \in 1..Len(SelectedInOrder) :
            /\ NewEntries[k].productId = SelectedInOrder[k]
            /\ NewEntries[k].type = ENTRY
            /\ NewEntries[k].quantity = quantity
            /\ NewEntries[k].unitCost = ById(products, SelectedInOrder[k]).costPrice]_vars

\* a bulk add over two selected products was committed
C21_Witness ==
  /\ lastOp = Op("confirmBulkAdd", "committed")
  /\ Len(transactions) >= 2
  /\ transactions[1].date = transactions[2].date
  /\ transactions[1].productId /= transactions[2].productId
  /\ \E i \in 1..Len(products) :
       products[i].currentStock = products[i].previousStock + MaxQty

\* the handlers of the bulk menu
BulkHandlers ==
  {"handleBulkZeroStock", "handleBulkAddStock", "confirmBulkAdd",
   "handleBulkDelete", "handleBulkClearStock"}

\* what a committed bulk handler does to the selected product p
BulkApplied(op, p) ==
  IF op = "handleBulkDelete" THEN p.id \notin Ids(products')
  ELSE /\ p.id \in Ids(products')
       /\ ById(products', p.id).currentStock =
            IF op = "confirmBulkAdd" THEN p.currentStock + quantity ELSE 0

\* C22: a bulk operation with an empty selection, or a bulk add with a
\* quantity <= 0, changes no product and no ledger record; a bulk operation
\* that is accepted is applied to every selected product in the same step.
C22_BulkAtomic ==
  [][lastOp'.op \in BulkHandlers =>
       /\ (selectedIds = {} \/ (lastOp'.op = "confirmBulkAdd" /\ quantity <= 0))
            => UNCHANGED <<products, transactions>>
       /\ lastOp'.result = "rejected" => UNCHANGED <<products, transactions>>
       /\ lastOp'.result = "committed" =>
            \A i \in 1..Len(products) :
              products[i].id \in selectedIds => BulkApplied(lastOp'.op, products[i])]_vars

\* a bulk add with quantity 0 over a non-empty selection was turned down
C22_Witness ==
  /\ lastOp = Op("confirmBulkAdd", "rejected")
  /\ selectedIds /= {}
  /\ quantity <= 0

\* the step committed an import
ImportStep == lastOp'.op = "importOnload" /\ lastOp'.result = "committed"

\* the rows of the import whose code is carried by no other row of the file
SingleRows(rows) ==
  { k \in 1..Len(rows) :
      /\ rows[k].code /= ""
      /\ \A j \in 1..Len(rows) : j /= k => rows[j].code /= rows[k].code }

\* C23: on an import row whose code matches a product of the catalog, the id
\* is kept; when the row's costPrice differs from the product's,
\* previousCostPrice becomes the old costPrice and {new price, now} is put in
\* front of costHistory, cut to 5 entries; when it is equal, previousCostPrice
\* and costHistory are left untouched.
C23_ImportCostMerge ==
  [][ImportStep =>
       \A k \in SingleRows(lastOp'.rows) :
         LET row == lastOp'.rows[k]
             i == FindIndexByCode(products, row.code)
         IN i > 0 =>
              LET p == products[i] IN
              /\ p.id \in Ids(products')
              /\ LET q == ById(products', p.id) IN
                 /\ q.code = row.code
                 /\ q.costPrice = row.costPrice
                 /\ IF row.costPrice /= p.costPrice
                    THEN /\ q.previousCostPrice = p.costPrice
                         /\ q.costHistory =
                              Slice(<<[price |-> row.costPrice, date |-> now]>>
                                      \o HistOrEmpty(p.costHistory), HistoryLimit)
                    ELSE /\ q.previousCostPrice = p.previousCostPrice
                         /\ q.costHistory = p.costHistory]_vars

\* C24: for an import row whose code matches no product of the catalog, the
\* import adds exactly one product with that code; its id is distinct from
\* every id of the catalog, its previousCostPrice equals its costPrice, and
\* its costHistory is one entry that holds the row's cost.
C24_ImportAddsNew ==
  [][ImportStep =>
       \A k \in SingleRows(lastOp'.rows) :
         LET row == lastOp'.rows[k]
             added == { i \in 1..Len(products') : products'[i].code = row.code }
         IN FindIndexByCode(products, row.code) = 0 =>
              /\ Cardinality(added) = 1
              /\ \A i \in added :
                   /\ products'[i].id \notin Ids(products)
                   /\ products'[i].costPrice = row.costPrice
                   /\ products'[i].previousCostPrice = row.costPrice
                   /\ Len(HistOrEmpty(products'[i].costHistory)) = 1
                   /\ HistOrEmpty(products'[i].costHistory)[1].price = row.costPrice]_vars

\* C25: import rows without a code are skipped and counted in the summary as
\* skipped while the other rows are processed: the summary's added, updated
\* and skipped counts add up to the number of rows.
C25_SkippedCounted ==
  Imported =>
    lastOp.added + lastOp.updated + P1_ToastSkipped = Len(lastOp.rows)

\* C26: a transaction on a product id that is absent from the current
\* catalog (the product was deleted or replaced after the dialog was opened)
\* is rejected: neither the catalog nor the ledger changes.
C26_AbsentProductRejected ==
  [][(lastOp'.op = "handleTransaction" /\ selectedProduct /= NoProduct
        /\ selectedProduct.id \notin Ids(products))
       => UNCHANGED <<products, transactions>>]_vars

\* the fields of a product that describe it and its thresholds
FrameFields ==
  {"id", "code", "name", "category", "unit", "minStock", "safetyStock",
   "monthlyConsumption", "salePrice"}

\* the product is one the step's handler was asked to change
Targeted(p) ==
  IF lastOp'.op = "handleTransaction" THEN p.id = selectedProduct.id
  ELSE p.id \in selectedIds

\* C27: a committed transaction on a product leaves every other product
\* unchanged and leaves that product's id, code, name, category, unit,
\* minStock, safetyStock, monthlyConsumption and salePrice unchanged; bulk
\* zero-stock and bulk add likewise change none of these fields and no
\* unselected product.
C27_Frame ==
  [][(lastOp'.op \in StockHandlers /\ lastOp'.result = "committed") =>
       /\ Len(products') = Len(products)
       /\ \A i \in 1..Len(products) :
            /\ \A f \in FrameFields : products'[i][f] = products[i][f]
            /\ Targeted(products[i]) \/ products'[i] = products[i]]_vars

\* a transaction on the first of two products was committed
C27_Witness ==
  /\ lastOp = Op("handleTransaction", "committed")
  /\ Len(products) = 2
  /\ Len(transactions) >= 1
  /\ transactions[1].productId = products[1].id
  /\ products[1].currentStock /= products[1].previousStock
  /\ products[1].minStock = 1

\* C28: in App.tsx products and transactions never change while the
\* logged-in user is a VIEWER, also when an ADMIN left a dialog open, logged
\* out, and a VIEWER logged in with that dialog state still set.
C28_ViewerReadOnly ==
  [][(rev = "App" /\ currentUser = "VIEWER")
       => UNCHANGED <<products, transactions>>]_vars

\* C29: the login lockout is permanent and complete: once the stored counter
\* of failed logins has reached 5 the screen is locked and nobody is logged
\* in, and from then on the counter stays at 5 or more, no login succeeds
\* and no registration is accepted.
C29_LockoutPermanent ==
  /\ [](failedAttempts >= MaxAttempts => (isLocked /\ currentUser = "null"))
  /\ [][failedAttempts >= MaxAttempts =>
         /\ failedAttempts' >= MaxAttempts
         /\ currentUser' = "null"
         /\ users' = users]_vars

\* the fifth failed login has just locked the screen
C29_Witness ==
  /\ lastOp = Op("handleAction", "invalid")
  /\ failedAttempts = MaxAttempts
  /\ isLocked

\* a step of part_002 that opens an EXIT dialog
OpensExitDialog ==
  /\ modalType' = EXIT
  /\ modalType /= EXIT \/ selectedProduct' /= selectedProduct

\* C30: in part_002 an EXIT is committed only by the second confirmation: an
\* EXIT dialog that opens has no confirmation yet, the first handleTransaction
\* call with quantity > 0 only sets showConfirmStep, closing the dialog
\* commits nothing and resets showConfirmStep; ENTRY and ADJUSTMENT commit on
\* the first confirmation.
C30_ExitTwoSteps ==
  [][rev = "P2" =>
       /\ OpensExitDialog => ~showConfirmStep'
       /\ (lastOp'.op = "handleTransaction" /\ modalType = EXIT /\ quantity > 0
             /\ selectedProduct /= NoProduct /\ ~showConfirmStep)
            => (showConfirmStep' /\ UNCHANGED <<products, transactions>>)
       /\ (lastOp'.op = "handleTransaction" /\ modalType \in {ENTRY, ADJUSTMENT}
             /\ quantity > 0 /\ selectedProduct /= NoProduct)
            => lastOp'.result = "committed"
       /\ (modalType \in TransactionType /\ modalType' = "null" /\ lastOp' = UiOp)
            => (~showConfirmStep' /\ UNCHANGED <<products, transactions>>)]_vars

====
